---- MODULE Spec2Model ----
(***************************************************************************)
(* Password Security Lab: the PasswordAnalyzer class (password_analyzer.py)*)
(* and the Flask endpoint /api/analyze built on it (backend/api.py).       *)
(*                                                                         *)
(* Representation.                                                         *)
(*   - A character is a one-character string; a password is a sequence of  *)
(*     characters.  The backtick, which a TLA+ string cannot hold, is the   *)
(*     character written "backtick".                                       *)
(*   - Scores are counted in half points, because the diversity component  *)
(*     adds 7.5 per class: Pts(35) is the score 35, and 85 is 42.5.        *)
(*   - Floating-point magnitudes (entropy, crack times, attack speeds) are *)
(*     kept as base-2 logarithms in millionths of a bit (Bits).   For every*)
(*     charset size and every length below 400 this gives the same outcome *)
(*     as the IEEE doubles of the program for each comparison the program  *)
(*     makes (entropy tiers, time-format tiers, float overflow).           *)
(***************************************************************************)
EXTENDS Integers, Sequences, FiniteSets, TLC

VARIABLES ARGON2_AVAILABLE, analyzer, op, arg, result, response, calls

vars == <<ARGON2_AVAILABLE, analyzer, op, arg, result, response, calls>>

-----------------------------------------------------------------------------
(* Bounds of the model *)

MaxLen == 17

MaxTail == 3

HeadLen == 16

LongLen == 220

-----------------------------------------------------------------------------
(* Characters *)

Lowercase ==
    <<"a", "b", "c", "d", "e", "f", "g", "h", "i", "j", "k", "l", "m",
      "n", "o", "p", "q", "r", "s", "t", "u", "v", "w", "x", "y", "z">>

Uppercase ==
    <<"A", "B", "C", "D", "E", "F", "G", "H", "I", "J", "K", "L", "M",
      "N", "O", "P", "Q", "R", "S", "T", "U", "V", "W", "X", "Y", "Z">>

Digits == <<"0", "1", "2", "3", "4", "5", "6", "7", "8", "9">>

Range(s) == {s[i] : i \in DOMAIN s}

LowerSet == Range(Lowercase)

UpperSet == Range(Uppercase)

DigitSet == Range(Digits)

\* the character class of the regular expression in _identify_char_sets
SpecialSet ==
    {"!", "@", "#", "$", "%", "^", "&", "*", "(", ")", "_", "+", "-", "=",
     "[", "]", "{", "}", ";", ":", "'", "\"", ",", ".", "<", ">", "?", "/",
     "\\", "|", "backtick", "~"}

\* str.lower(), one character
LowerChar ==
    [c \in UpperSet |-> Lowercase[CHOOSE k \in 1..26 : Uppercase[k] = c]]

\* str.lower()
lower(s) == [i \in DOMAIN s |-> IF s[i] \in UpperSet THEN LowerChar[s[i]] ELSE s[i]]

\* str.isalpha(): non-empty and every character a letter
isalpha(s) == Len(s) > 0 /\ \A i \in DOMAIN s : s[i] \in LowerSet \cup UpperSet

\* re.search of a literal string
Contains(s, sub) ==
    \E i \in 1..(Len(s) - Len(sub) + 1) : SubSeq(s, i, i + Len(sub) - 1) = sub

\* re.search(r'(.)\1{2,}', s): the dot matches any character but a newline
SearchRepeated(s) ==
    \E i \in 1..(Len(s) - 2) : s[i] # "\n" /\ s[i+1] = s[i] /\ s[i+2] = s[i]

\* re.search(r'[...]', s) for a character class
SearchClass(s, class) == \E i \in DOMAIN s : s[i] \in class

-----------------------------------------------------------------------------
(* Fixed-point logarithms *)

\* n bits, in millionths of a bit
Bits(n) == n * 1000000

\* n points, in half points
Pts(n) == 2 * n

\* floor(log2(n) * 1000000) for the charset sizes the program can compute
Log2Micro(n) ==
    CASE n = 1  -> 0
      [] n = 10 -> 3321928
      [] n = 26 -> 4700439
      [] n = 32 -> 5000000
      [] n = 36 -> 5169925
      [] n = 42 -> 5392317
      [] n = 52 -> 5700439
      [] n = 58 -> 5857980
      [] n = 62 -> 5954196
      [] n = 68 -> 6087462
      [] n = 84 -> 6392317
      [] n = 94 -> 6554588

-----------------------------------------------------------------------------
(* class PasswordAnalyzer: the static tables *)

COMMON_PASSWORDS ==
    { <<"p", "a", "s", "s", "w", "o", "r", "d">>,
      <<"1", "2", "3", "4", "5", "6">>,
      <<"1", "2", "3", "4", "5", "6", "7", "8">>,
      <<"q", "w", "e", "r", "t", "y">>,
      <<"a", "b", "c", "1", "2", "3">>,
      <<"m", "o", "n", "k", "e", "y">>,
      <<"l", "e", "t", "m", "e", "i", "n">>,
      <<"t", "r", "u", "s", "t", "n", "o", "1">>,
      <<"d", "r", "a", "g", "o", "n">>,
      <<"b", "a", "s", "e", "b", "a", "l", "l">>,
      <<"i", "l", "o", "v", "e", "y", "o", "u">>,
      <<"m", "a", "s", "t", "e", "r">>,
      <<"s", "u", "n", "s", "h", "i", "n", "e">>,
      <<"a", "s", "h", "l", "e", "y">>,
      <<"b", "a", "i", "l", "e", "y">>,
      <<"s", "h", "a", "d", "o", "w">>,
      <<"s", "u", "p", "e", "r", "m", "a", "n">>,
      <<"q", "a", "z", "w", "s", "x">> }

\* log2 of the attack speeds 1e15, 1.8e11, 6.5e10, 8.5e4, 1e3 (hashes/second)
ATTACK_SPEEDS ==
    [plaintext |-> 49828921,
     md5       |-> 37389206,
     sha256    |-> 35919721,
     bcrypt    |-> 16375175,
     argon2    |-> 9965784]

-----------------------------------------------------------------------------
(* class PasswordAnalyzer: construction *)

_identify_char_sets(self) ==
    [lowercase |-> SearchClass(self.password, LowerSet),
     uppercase |-> SearchClass(self.password, UpperSet),
     digits    |-> SearchClass(self.password, DigitSet),
     special   |-> SearchClass(self.password, SpecialSet)]

\* the charset size summed in _calculate_entropy and in estimate_crack_time
charset_size(char_sets) ==
      (IF char_sets.lowercase THEN 26 ELSE 0)
    + (IF char_sets.uppercase THEN 26 ELSE 0)
    + (IF char_sets.digits    THEN 10 ELSE 0)
    + (IF char_sets.special   THEN 32 ELSE 0)

_calculate_entropy(self) ==
    IF charset_size(self.char_sets) = 0
    THEN 0
    ELSE self.length * Log2Micro(charset_size(self.char_sets))

\* a variant that does not look for runs of ascending digits
NoDigitRuns_has_simple_patterns(self) ==
    LET s == lower(self.password)
    IN  \/ SearchRepeated(s)
        \/ \E k \in 1..24 :
              Contains(s, <<Lowercase[k], Lowercase[k+1], Lowercase[k+2]>>)
        \/ Contains(s, <<"q", "w", "e", "r", "t">>)
        \/ Contains(s, <<"a", "s", "d", "f">>)
        \/ Contains(s, <<"z", "x", "c", "v">>)

_has_simple_patterns(self) ==
    LET s == lower(self.password)
    IN  \/ SearchRepeated(s)
        \/ \E k \in 1..24 :
              Contains(s, <<Lowercase[k], Lowercase[k+1], Lowercase[k+2]>>)
        \/ \E k \in 1..8 :
              Contains(s, <<Digits[k], Digits[k+1], Digits[k+2]>>)
        \/ Contains(s, <<"q", "w", "e", "r", "t">>)
        \/ Contains(s, <<"a", "s", "d", "f">>)
        \/ Contains(s, <<"z", "x", "c", "v">>)

_has_repeated_chars(self) == SearchRepeated(self.password)

Max(a, b) == IF a >= b THEN a ELSE b

Min(a, b) == IF a <= b THEN a ELSE b

\* sum(self.char_sets.values())
char_type_count(char_sets) ==
    Cardinality({k \in DOMAIN char_sets : char_sets[k]})

\* the score (in half points) without any of the clamps of the program
Unclamped_calculate_strength_score(self) ==
    LET n  == char_type_count(self.char_sets)
        s1 == IF self.length >= 16 THEN Pts(35)
              ELSE IF self.length >= 12 THEN Pts(25)
              ELSE IF self.length >= 8 THEN Pts(15)
              ELSE IF self.length >= 6 THEN Pts(5)
              ELSE 0
        s2 == s1 + n * 15
        s3 == s2 + (IF self.entropy >= Bits(80) THEN Pts(20)
                    ELSE IF self.entropy >= Bits(60) THEN Pts(15)
                    ELSE IF self.entropy >= Bits(40) THEN Pts(10)
                    ELSE IF self.entropy >= Bits(28) THEN Pts(5)
                    ELSE 0)
        s4 == IF lower(self.password) \in COMMON_PASSWORDS
              THEN s3 - Pts(50) ELSE s3
        s5 == IF _has_simple_patterns(self) THEN s4 - Pts(20) ELSE s4
        s6 == s5 + (IF self.length >= 12 /\ n >= 3 THEN Pts(10) ELSE 0)
        s7 == s6 + (IF ~_has_repeated_chars(self) THEN Pts(5) ELSE 0)
    IN  s7

\* the score in half points: 7.5 per class is 15 half points, and the
\* result is returned as it is, without being made a whole number
_calculate_strength_score(self) ==
    LET n  == char_type_count(self.char_sets)
        s1 == IF self.length >= 16 THEN Pts(35)
              ELSE IF self.length >= 12 THEN Pts(25)
              ELSE IF self.length >= 8 THEN Pts(15)
              ELSE IF self.length >= 6 THEN Pts(5)
              ELSE 0
        s2 == s1 + n * 15
        s3 == s2 + (IF self.entropy >= Bits(80) THEN Pts(20)
                    ELSE IF self.entropy >= Bits(60) THEN Pts(15)
                    ELSE IF self.entropy >= Bits(40) THEN Pts(10)
                    ELSE IF self.entropy >= Bits(28) THEN Pts(5)
                    ELSE 0)
        s4 == IF lower(self.password) \in COMMON_PASSWORDS
              THEN Max(0, s3 - Pts(50)) ELSE s3
        s5 == IF _has_simple_patterns(self) THEN Max(0, s4 - Pts(20)) ELSE s4
        s6 == s5 + (IF self.length >= 12 /\ n >= 3 THEN Pts(10) ELSE 0)
        s7 == s6 + (IF ~_has_repeated_chars(self) THEN Pts(5) ELSE 0)
    IN  Min(Pts(100), Max(0, s7))

\* a variant that tests the thresholds from the lowest to the highest
Ascending_determine_strength_level(self) ==
    IF self.strength_score >= Pts(20) THEN "Weak"
    ELSE IF self.strength_score >= Pts(40) THEN "Moderate"
    ELSE IF self.strength_score >= Pts(60) THEN "Strong"
    ELSE IF self.strength_score >= Pts(80) THEN "Very Strong"
    ELSE "Very Weak"

\* a variant whose thresholds are strict
Strict_determine_strength_level(self) ==
    IF self.strength_score > Pts(80) THEN "Very Strong"
    ELSE IF self.strength_score > Pts(60) THEN "Strong"
    ELSE IF self.strength_score > Pts(40) THEN "Moderate"
    ELSE IF self.strength_score > Pts(20) THEN "Weak"
    ELSE "Very Weak"

_determine_strength_level(self) ==
    IF self.strength_score >= Pts(80) THEN "Very Strong"
    ELSE IF self.strength_score >= Pts(60) THEN "Strong"
    ELSE IF self.strength_score >= Pts(40) THEN "Moderate"
    ELSE IF self.strength_score >= Pts(20) THEN "Weak"
    ELSE "Very Weak"

\* __init__: the fields are assigned one after the other
PasswordAnalyzer(password) ==
    LET s1 == [password |-> password, length |-> Len(password)]
        s2 == s1 @@ [char_sets |-> _identify_char_sets(s1)]
        s3 == s2 @@ [entropy |-> _calculate_entropy(s2)]
        s4 == s3 @@ [strength_score |-> _calculate_strength_score(s3)]
        s5 == s4 @@ [strength_level |-> _determine_strength_level(s4)]
    IN  s5

-----------------------------------------------------------------------------
(* class PasswordAnalyzer: the methods.  A call either returns a value or  *)
(* raises an exception.                                                    *)

NoValue == [none |-> TRUE]

Return(v) == [raised |-> "", value |-> v]

Raise(e) == [raised |-> e, value |-> NoValue]

\* an integer b ** e, kept exact as the pair of base and exponent
Power(b, e) == IF e = 0 \/ b = 1 THEN [base |-> 1, exp |-> 0] ELSE [base |-> b, exp |-> e]

\* log2 of the integer, in millionths of a bit
Log2Power(c) == c.exp * Log2Micro(c.base)

\* the tier of the human-readable time; the digits of the figure are left out.
\* seconds is log2 of the time in seconds, the thresholds are log2 of
\* 1, 60, 3600, 86400, 31536000 and of 31536000 times 1e3, 1e6, 1e9, 1e12.
_format_time(seconds) ==
    IF seconds < 0 THEN "Instant"
    ELSE IF seconds < 5906891 THEN "seconds"
    ELSE IF seconds < 11813781 THEN "minutes"
    ELSE IF seconds < 16398744 THEN "hours"
    ELSE IF seconds < 24910496 THEN "days"
    ELSE IF seconds < 34876281 THEN "years"
    ELSE IF seconds < 44842065 THEN "thousand years"
    ELSE IF seconds < 54807849 THEN "million years"
    ELSE IF seconds < 64773633 THEN "billion years"
    ELSE "trillion years"

\* a variant that counts the combinations of a common password like those of
\* any other password
NoOverride_estimate_crack_time(self, algorithm) ==
    IF algorithm \notin DOMAIN ATTACK_SPEEDS
    THEN Raise("ValueError")
    ELSE
    LET size == charset_size(self.char_sets)
        total_combinations == Power(IF size = 0 THEN 26 ELSE size, self.length)
        avg_attempts == Log2Power(total_combinations) - Bits(1)
        time_seconds == avg_attempts - ATTACK_SPEEDS[algorithm]
    IN  IF avg_attempts >= Bits(1024)
        THEN Raise("OverflowError")
        ELSE Return([algorithm    |-> algorithm,
                     attack_speed |-> ATTACK_SPEEDS[algorithm],
                     combinations |-> total_combinations,
                     time_seconds |-> time_seconds,
                     time_human   |-> _format_time(time_seconds)])

\* a variant that treats an unknown name as md5 instead of raising
Defaulting_estimate_crack_time(self, algorithm) ==
    LET algo == IF algorithm \in DOMAIN ATTACK_SPEEDS THEN algorithm ELSE "md5"
        size == charset_size(self.char_sets)
        total_combinations ==
            IF lower(self.password) \in COMMON_PASSWORDS
            THEN Power(1, 0)
            ELSE Power(IF size = 0 THEN 26 ELSE size, self.length)
        avg_attempts == Log2Power(total_combinations) - Bits(1)
        time_seconds == avg_attempts - ATTACK_SPEEDS[algo]
    IN  IF avg_attempts >= Bits(1024)
        THEN Raise("OverflowError")
        ELSE Return([algorithm    |-> algo,
                     attack_speed |-> ATTACK_SPEEDS[algo],
                     combinations |-> total_combinations,
                     time_seconds |-> time_seconds,
                     time_human   |-> _format_time(time_seconds)])

\* total_combinations / 2 is a true division of an integer: it raises
\* OverflowError when the quotient is 2^1024 or more.  time_seconds is the
\* log2 of the time in seconds.
estimate_crack_time(self, algorithm) ==
    IF algorithm \notin DOMAIN ATTACK_SPEEDS
    THEN Raise("ValueError")
    ELSE
    LET size == charset_size(self.char_sets)
        total_combinations ==
            IF lower(self.password) \in COMMON_PASSWORDS
            THEN Power(1, 0)
            ELSE Power(IF size = 0 THEN 26 ELSE size, self.length)
        avg_attempts == Log2Power(total_combinations) - Bits(1)
        time_seconds == avg_attempts - ATTACK_SPEEDS[algorithm]
    IN  IF avg_attempts >= Bits(1024)
        THEN Raise("OverflowError")
        ELSE Return([algorithm    |-> algorithm,
                     attack_speed |-> ATTACK_SPEEDS[algorithm],
                     combinations |-> total_combinations,
                     time_seconds |-> time_seconds,
                     time_human   |-> _format_time(time_seconds)])

\* the list comprehension stops at the first call that raises
CrackTimesOf(self, algorithms) ==
    LET rs == [i \in DOMAIN algorithms |-> estimate_crack_time(self, algorithms[i])]
    IN  IF \E i \in DOMAIN rs : rs[i].raised # ""
        THEN Raise(rs[CHOOSE i \in DOMAIN rs :
                         /\ rs[i].raised # ""
                         /\ \A j \in 1..(i-1) : rs[j].raised = ""].raised)
        ELSE Return([i \in DOMAIN rs |-> rs[i].value])

\* a variant that lists sha256 before md5
Reordered_get_all_crack_times(self) ==
    CrackTimesOf(self, <<"plaintext", "sha256", "md5", "bcrypt", "argon2">>)

get_all_crack_times(self) ==
    CrackTimesOf(self, <<"plaintext", "md5", "sha256", "bcrypt", "argon2">>)

-----------------------------------------------------------------------------
(* get_enhancement_suggestions.  The messages are the program's, without   *)
(* the leading pictograms.                                                 *)

MsgLength12(n) ==
    "Increase length to at least 12 characters (current: " \o ToString(n) \o ")"

MsgLength16(n) ==
    "Consider increasing length to 16+ characters for better security (current: "
        \o ToString(n) \o ")"

MsgUppercase == "Add uppercase letters (A-Z)"

MsgLowercase == "Add lowercase letters (a-z)"

MsgDigits == "Add numbers (0-9)"

MsgSpecial == "Add special characters (!@#$%^&*)"

MsgCommon == "CRITICAL: This is a commonly used password! Change it immediately!"

MsgPatterns == "Avoid predictable patterns (abc, 123, aaa, keyboard patterns)"

MsgRepeated == "Avoid repeating the same character multiple times"

MsgDictionary ==
    "Avoid using single dictionary words - use passphrases or random characters"

MsgPassphrase ==
    "Best Practice: Use a passphrase (e.g., 'Correct-Horse-Battery-Staple-2024!')"

MsgManager ==
    "Best Practice: Use a password manager to generate and store strong passwords"

MsgReuse == "Best Practice: Never reuse passwords across different accounts"

MsgExcellent == "Excellent password! Maintain this security level for all accounts."

\* suggestions.append(m) under a condition
AppendIf(suggestions, cond, m) == IF cond THEN Append(suggestions, m) ELSE suggestions

\* a variant that reports the common password before the missing classes
Swapped_get_enhancement_suggestions(self) ==
    LET a1  == IF self.length < 12
               THEN <<MsgLength12(self.length)>>
               ELSE IF self.length < 16
               THEN <<MsgLength16(self.length)>>
               ELSE <<>>
        a2  == AppendIf(a1, lower(self.password) \in COMMON_PASSWORDS, MsgCommon)
        a3  == AppendIf(a2, ~self.char_sets.uppercase, MsgUppercase)
        a4  == AppendIf(a3, ~self.char_sets.lowercase, MsgLowercase)
        a5  == AppendIf(a4, ~self.char_sets.digits, MsgDigits)
        a6  == AppendIf(a5, ~self.char_sets.special, MsgSpecial)
        a7  == AppendIf(a6, _has_simple_patterns(self), MsgPatterns)
        a8  == AppendIf(a7, _has_repeated_chars(self), MsgRepeated)
        a9  == AppendIf(a8, Len(self.password) >= 4 /\ isalpha(self.password),
                        MsgDictionary)
        a10 == IF Len(a9) > 0
               THEN a9 \o <<MsgPassphrase, MsgManager, MsgReuse>>
               ELSE a9
    IN  AppendIf(a10, Len(a10) = 0, MsgExcellent)

get_enhancement_suggestions(self) ==
    LET a1  == IF self.length < 12
               THEN <<MsgLength12(self.length)>>
               ELSE IF self.length < 16
               THEN <<MsgLength16(self.length)>>
               ELSE <<>>
        a2  == AppendIf(a1, ~self.char_sets.uppercase, MsgUppercase)
        a3  == AppendIf(a2, ~self.char_sets.lowercase, MsgLowercase)
        a4  == AppendIf(a3, ~self.char_sets.digits, MsgDigits)
        a5  == AppendIf(a4, ~self.char_sets.special, MsgSpecial)
        a6  == AppendIf(a5, lower(self.password) \in COMMON_PASSWORDS, MsgCommon)
        a7  == AppendIf(a6, _has_simple_patterns(self), MsgPatterns)
        a8  == AppendIf(a7, _has_repeated_chars(self), MsgRepeated)
        a9  == AppendIf(a8, Len(self.password) >= 4 /\ isalpha(self.password),
                        MsgDictionary)
        a10 == IF Len(a9) > 0
               THEN a9 \o <<MsgPassphrase, MsgManager, MsgReuse>>
               ELSE a9
    IN  AppendIf(a10, Len(a10) = 0, MsgExcellent)

-----------------------------------------------------------------------------
(* get_hash_comparison.  A digest is known by its kind and its length in   *)
(* characters; bcrypt and argon2 draw a random salt, or raise.             *)

Salts == {"salt1", "salt2"}

\* what hashing with bcrypt can do: a hash under a fresh salt, or an exception
BcryptOutcomes ==
    {[raised |-> FALSE, salt |-> s, message |-> 0] : s \in Salts}
        \cup {[raised |-> TRUE, salt |-> "", message |-> 0]}

\* what hashing with argon2 can do: a hash under a fresh salt, or an
\* exception with a short or a long message
Argon2Outcomes ==
    {[raised |-> FALSE, salt |-> s, message |-> 0] : s \in Salts}
        \cup {[raised |-> TRUE, salt |-> "", message |-> n] : n \in {0, 80}}

Digest(kind, salt, length) == [kind |-> kind, salt |-> salt, length |-> length]

get_hash_comparison(self, argon2_available, bcrypt_call, argon2_call) ==
    IF bcrypt_call.raised
    THEN Raise("bcrypt error")
    ELSE Return(
        [plaintext |-> Digest("password", "", Len(self.password)),
         md5       |-> Digest("md5 hexdigest", "", 32),
         sha256    |-> Digest("sha256 hexdigest", "", 64),
         bcrypt    |-> Digest("bcrypt hash", bcrypt_call.salt, 60),
         argon2    |-> IF argon2_available
                       THEN IF argon2_call.raised
                            THEN Digest("[Argon2 error: ...]", "", 16 + argon2_call.message)
                            ELSE Digest("argon2id hash", argon2_call.salt, 97)
                       ELSE Digest("[Argon2id - install argon2-cffi: pip install argon2-cffi]",
                                   "", 57)])

\* the calls of the external primitives that get_hash_comparison makes, in
\* order, each with what it did: bcrypt.hashpw first and, if that returned
\* and argon2 is installed, PasswordHasher.hash
HashCalls(argon2_available, bcrypt_call, argon2_call) ==
    <<IF bcrypt_call.raised THEN "bcrypt.hashpw raised" ELSE "bcrypt.hashpw">>
        \o (IF ~bcrypt_call.raised /\ argon2_available
            THEN <<IF argon2_call.raised
                   THEN "PasswordHasher.hash raised"
                   ELSE "PasswordHasher.hash">>
            ELSE <<>>)

is_common(self) == lower(self.password) \in COMMON_PASSWORDS

get_summary(self) ==
    LET crack_times == get_all_crack_times(self)
    IN  IF crack_times.raised # ""
        THEN Raise(crack_times.raised)
        ELSE Return([length          |-> self.length,
                     character_sets  |-> self.char_sets,
                     entropy         |-> self.entropy,
                     strength_score  |-> self.strength_score,
                     strength_level  |-> self.strength_level,
                     crack_times     |-> crack_times.value,
                     suggestions     |-> get_enhancement_suggestions(self),
                     is_common       |-> is_common(self)])

-----------------------------------------------------------------------------
(* backend/api.py *)

NoAnalyzer == [none |-> TRUE]

NoResponse == [none |-> TRUE]

\* a JSON value found under the key "password"
JsonString(text) == [type |-> "string", text |-> text, number |-> 0]

JsonNull == [type |-> "null", text |-> <<>>, number |-> 0]

JsonNumber(n) == [type |-> "number", text |-> <<>>, number |-> n]

\* a variant that takes only a missing value for empty
NoneOnly_Falsy(v) == v.type = "null"

\* Python truthiness of the value: not password
Falsy(v) ==
    \/ v.type = "null"
    \/ v.type = "string" /\ v.text = <<>>
    \/ v.type = "number" /\ v.number = 0

\* the JSON body of a request: nothing, {} or an object with other keys,
\* with or without the key "password"
Request(body, has_key, password) ==
    [body |-> body, has_key |-> has_key, password |-> password]

ErrorResponse(status, error) ==
    [status |-> status, success |-> FALSE, error |-> error, data |-> NoValue]

OkResponse(data) ==
    [status |-> 200, success |-> TRUE, error |-> "", data |-> data]

\* round(entropy, 2), in hundredths of a bit
Round2(entropy) == (entropy + 5000) \div 10000

\* v[:60] + '...' if len(v) > 60 else v
Truncate(v) ==
    IF v.length > 60
    THEN [kind |-> v.kind, salt |-> v.salt, length |-> 63, ellipsis |-> TRUE]
    ELSE [kind |-> v.kind, salt |-> v.salt, length |-> v.length, ellipsis |-> FALSE]

\* what the handler leaves behind: the response, the analyzer it built (if
\* any) and the steps of the analyzer it ran, in order
Handled(resp, a, steps) == [response |-> resp, analyzer |-> a, calls |-> steps]

analyze_password(req, argon2_available, bcrypt_call, argon2_call) ==
    IF req.body # "object" \/ ~req.has_key
    THEN Handled(ErrorResponse(400, "Password is required"), NoAnalyzer, <<>>)
    ELSE IF Falsy(req.password)
    THEN Handled(ErrorResponse(400, "Password cannot be empty"), NoAnalyzer, <<>>)
    ELSE IF req.password.type # "string"
    THEN \* len() of a number raises inside __init__
         Handled(ErrorResponse(500, "TypeError"), NoAnalyzer, <<"PasswordAnalyzer">>)
    ELSE
    LET a           == PasswordAnalyzer(req.password.text)
        crack_times == get_all_crack_times(a)
        suggestions == get_enhancement_suggestions(a)
        hashes      == get_hash_comparison(a, argon2_available, bcrypt_call, argon2_call)
    IN  IF crack_times.raised # ""
        THEN Handled(ErrorResponse(500, crack_times.raised), a,
                     <<"PasswordAnalyzer", "get_all_crack_times">>)
        ELSE IF hashes.raised # ""
        THEN Handled(ErrorResponse(500, hashes.raised), a,
                     <<"PasswordAnalyzer", "get_all_crack_times",
                       "get_enhancement_suggestions", "get_hash_comparison">>
                         \o HashCalls(argon2_available, bcrypt_call, argon2_call))
        ELSE Handled(
            OkResponse(
                [strength |->
                    [score     |-> a.strength_score,
                     level     |-> a.strength_level,
                     length    |-> a.length,
                     entropy   |-> Round2(a.entropy),
                     char_sets |-> a.char_sets,
                     is_common |-> is_common(a)],
                 crack_times |->
                    [i \in DOMAIN crack_times.value |->
                        [algorithm    |-> crack_times.value[i].algorithm,
                         time_human   |-> crack_times.value[i].time_human,
                         time_seconds |-> crack_times.value[i].time_seconds,
                         attack_speed |-> crack_times.value[i].attack_speed]],
                 suggestions |-> suggestions,
                 hashes |-> [k \in DOMAIN hashes.value |-> Truncate(hashes.value[k])]]),
            a,
            <<"PasswordAnalyzer", "get_all_crack_times",
              "get_enhancement_suggestions", "get_hash_comparison">>
                \o HashCalls(argon2_available, bcrypt_call, argon2_call))

\* the static list served by /api/examples
examples ==
    << [password |-> <<"p", "a", "s", "s", "w", "o", "r", "d">>,
        description |-> "Very Weak - Common Password",
        expected_score |-> Pts(5)],
       [password |-> <<"P", "a", "s", "s", "1", "2", "3">>,
        description |-> "Weak - Short & Predictable",
        expected_score |-> Pts(22)],
       [password |-> <<"M", "y", "P", "@", "s", "s", "w", "0", "r", "d">>,
        description |-> "Moderate - Better but Still Risky",
        expected_score |-> Pts(55)],
       [password |-> <<"T", "r", "0", "u", "b", "4", "d", "o", "r", "&", "3">>,
        description |-> "Strong - Good Mix",
        expected_score |-> Pts(70)],
       [password |-> <<"c", "o", "r", "r", "e", "c", "t", "-", "h", "o", "r", "s", "e",
                       "-", "b", "a", "t", "t", "e", "r", "y", "-", "s", "t", "a", "p",
                       "l", "e", "-", "2", "0", "2", "4">>,
        description |-> "Very Strong - Long Passphrase",
        expected_score |-> Pts(100)] >>

-----------------------------------------------------------------------------
(* The inputs *)

Alphabet == <<"a", "A", "1", "!", " ", "\n">>

\* the seed repeated up to n characters
Cycle(seed, n) == [i \in 1..n |-> seed[((i - 1) % Len(seed)) + 1]]

Seeds ==
    {<<Alphabet[i]>> : i \in DOMAIN Alphabet}
        \cup {<<Alphabet[i], Alphabet[j]>> : i, j \in DOMAIN Alphabet}

\* a seed with all four classes and no pattern
StrongSeed == <<"x", "K", "7", "#">>

Chunks ==
    { <<"a", "b", "c">>, <<"x", "Y", "z">>, <<"0", "1", "2">>, <<"7", "8", "9">>,
      <<"q", "w", "e", "r", "t">>, <<"A", "s", "d", "f">>, <<"z", "x", "c", "v">>,
      <<"a", "A", "a">>, <<"w", "o", "r", "d">>, <<"b", "a", "c">> }

Typed == {Cycle(s, n) : s \in Seeds, n \in 0..MaxLen}

Tails == {Cycle(s, n) : s \in Seeds, n \in 0..MaxTail} \cup Chunks

Long == {Cycle(s, LongLen) : s \in {<<"a">>, <<"7">>, <<"a", "7">>, StrongSeed}}

Named ==
    COMMON_PASSWORDS
        \cup {examples[i].password : i \in DOMAIN examples}
        \cup { <<"P", "a", "s", "s", "w", "o", "r", "d">>,
               <<"Q", "W", "E", "R", "T", "Y">>,
               <<"p", "a", "s", "s", "w", "o", "r", "d", "1">> }

Passwords ==
    Typed \cup Chunks \cup Named \cup Long
        \cup {Cycle(StrongSeed, n) : n \in 0..MaxLen}
        \cup {Cycle(StrongSeed, HeadLen) \o t : t \in Tails}

AlgorithmNames == DOMAIN ATTACK_SPEEDS \cup {"sha1", "MD5", ""}

Requests ==
    {Request("none", FALSE, JsonNull), Request("empty", FALSE, JsonNull),
     Request("object", FALSE, JsonNull)}
        \cup {Request("object", TRUE, v) :
                 v \in {JsonNull, JsonNumber(0), JsonNumber(5)}
                          \cup {JsonString(p) : p \in Passwords}}

-----------------------------------------------------------------------------
(* The state machine.  analyzer is the PasswordAnalyzer in use, op the    *)
(* operation that ran last and arg its argument (the algorithm name of     *)
(* estimate_crack_time, the request of the endpoint), result what a method *)
(* of the analyzer returned or raised, response the HTTP response of the   *)
(* endpoint, calls the steps of the analyzer the endpoint ran, with the     *)
(* calls of the hashing primitives made by the last of them.               *)

Init ==
    /\ ARGON2_AVAILABLE \in BOOLEAN
    /\ analyzer = NoAnalyzer
    /\ op = "idle"
    /\ arg = NoValue
    /\ result = NoValue
    /\ response = NoResponse
    /\ calls = <<>>

Constructed == analyzer # NoAnalyzer /\ response = NoResponse

\* PasswordAnalyzer(password)
Construct(password) ==
    /\ op = "idle"
    /\ analyzer' = PasswordAnalyzer(password)
    /\ arg' = NoValue
    /\ op' = "PasswordAnalyzer"
    /\ UNCHANGED <<ARGON2_AVAILABLE, result, response, calls>>

EstimateCrackTime(algorithm) ==
    /\ Constructed
    /\ result' = estimate_crack_time(analyzer, algorithm)
    /\ arg' = algorithm
    /\ op' = "estimate_crack_time"
    /\ UNCHANGED <<ARGON2_AVAILABLE, analyzer, response, calls>>

GetAllCrackTimes ==
    /\ Constructed
    /\ result' = get_all_crack_times(analyzer)
    /\ arg' = NoValue
    /\ op' = "get_all_crack_times"
    /\ UNCHANGED <<ARGON2_AVAILABLE, analyzer, response, calls>>

GetEnhancementSuggestions ==
    /\ Constructed
    /\ result' = Return(get_enhancement_suggestions(analyzer))
    /\ arg' = NoValue
    /\ op' = "get_enhancement_suggestions"
    /\ UNCHANGED <<ARGON2_AVAILABLE, analyzer, response, calls>>

GetHashComparison(bcrypt_call, argon2_call) ==
    /\ Constructed
    /\ result' = get_hash_comparison(analyzer, ARGON2_AVAILABLE, bcrypt_call, argon2_call)
    /\ arg' = NoValue
    /\ op' = "get_hash_comparison"
    /\ UNCHANGED <<ARGON2_AVAILABLE, analyzer, response, calls>>

GetSummary ==
    /\ Constructed
    /\ result' = get_summary(analyzer)
    /\ arg' = NoValue
    /\ op' = "get_summary"
    /\ UNCHANGED <<ARGON2_AVAILABLE, analyzer, response, calls>>

\* POST /api/analyze
AnalyzePassword(req, bcrypt_call, argon2_call) ==
    /\ op = "idle"
    /\ LET h == analyze_password(req, ARGON2_AVAILABLE, bcrypt_call, argon2_call)
       IN  /\ response' = h.response
           /\ analyzer' = h.analyzer
           /\ calls' = h.calls
    /\ arg' = req
    /\ op' = "analyze_password"
    /\ UNCHANGED <<ARGON2_AVAILABLE, result>>

\* GET /api/examples
GetExamples ==
    /\ op = "idle"
    /\ response' = OkResponse(examples)
    /\ arg' = NoValue
    /\ op' = "get_examples"
    /\ UNCHANGED <<ARGON2_AVAILABLE, analyzer, result, calls>>

\* GET /api/health
HealthCheck ==
    /\ op = "idle"
    /\ response' = OkResponse([status |-> "healthy", argon2_available |-> ARGON2_AVAILABLE])
    /\ arg' = NoValue
    /\ op' = "health_check"
    /\ UNCHANGED <<ARGON2_AVAILABLE, analyzer, result, calls>>

\* the response is sent, or the analyzer is dropped: nothing is kept from
\* one request to the next
ServeNext ==
    /\ op # "idle"
    /\ analyzer' = NoAnalyzer
    /\ op' = "idle"
    /\ arg' = NoValue
    /\ result' = NoValue
    /\ response' = NoResponse
    /\ calls' = <<>>
    /\ UNCHANGED ARGON2_AVAILABLE

Next ==
    \/ \E password \in Passwords : Construct(password)
    \/ \E algorithm \in AlgorithmNames : EstimateCrackTime(algorithm)
    \/ GetAllCrackTimes
    \/ GetEnhancementSuggestions
    \/ \E b \in BcryptOutcomes, a \in Argon2Outcomes : GetHashComparison(b, a)
    \/ GetSummary
    \/ \E req \in Requests, b \in BcryptOutcomes, a \in Argon2Outcomes :
          AnalyzePassword(req, b, a)
    \/ GetExamples
    \/ HealthCheck
    \/ ServeNext

Spec == Init /\ [][Next]_vars

-----------------------------------------------------------------------------
(* Properties *)

Built == analyzer # NoAnalyzer

Algorithms == <<"plaintext", "md5", "sha256", "bcrypt", "argon2">>

Pass123 == <<"P", "a", "s", "s", "1", "2", "3">>

Passphrase == examples[5].password

\* C1: the strength score of every password is at least 0 and at most 100.
ScoreInRange ==
    Built => /\ analyzer.strength_score >= 0
             /\ analyzer.strength_score <= Pts(100)

\* a common password whose penalty is larger than its subtotal has been scored
ScoreInRangeWitness ==
    /\ Built
    /\ is_common(analyzer)
    /\ analyzer.length = 8
    /\ analyzer.strength_score <= Pts(5)

\* C2: the level is fixed by the score through the thresholds 80, 60, 40, 20,
\* and every score has exactly one of the five labels.
LevelByThresholds ==
    Built =>
        LET score == analyzer.strength_score
            level == analyzer.strength_level
        IN  /\ level \in {"Very Strong", "Strong", "Moderate", "Weak", "Very Weak"}
            /\ (level = "Very Strong") <=> (score >= Pts(80))
            /\ (level = "Strong")      <=> (Pts(60) <= score /\ score < Pts(80))
            /\ (level = "Moderate")    <=> (Pts(40) <= score /\ score < Pts(60))
            /\ (level = "Weak")        <=> (Pts(20) <= score /\ score < Pts(40))
            /\ (level = "Very Weak")   <=> (score < Pts(20))

\* a score that sits on a threshold has been given its level
LevelByThresholdsWitness ==
    /\ Built
    /\ analyzer.strength_score = Pts(60)
    /\ analyzer.strength_level = "Strong"

\* the estimates of a list are those of the five algorithms, in the order
\* plaintext, md5, sha256, bcrypt, argon2, with times that never decrease
InsecureToSecure(estimates) ==
    /\ Len(estimates) = 5
    /\ \A i \in 1..5 : estimates[i].algorithm = Algorithms[i]
    /\ \A i \in 1..4 : estimates[i].time_seconds <= estimates[i+1].time_seconds

UnknownAlgorithmRaises ==
    (op = "estimate_crack_time" /\ arg \notin Range(Algorithms)) =>
        /\ result.raised = "ValueError"
        /\ result.value = NoValue

\* an estimate was asked for an algorithm the table does not have
UnknownAlgorithmRaisesWitness ==
    /\ op = "estimate_crack_time"
    /\ arg = "sha1"
    /\ analyzer.length >= 8
    /\ result.raised = "ValueError"

\* the request has no password, or the empty string for one
MissingOrEmpty(req) ==
    \/ req.body # "object"
    \/ ~req.has_key
    \/ req.password = JsonString(<<>>)

HasRun(s) == \E i \in 1..(Len(s) - 2) : s[i+1] = s[i] /\ s[i+2] = s[i]

\* C6: the suggestions are the single affirmation if and only if the password
\* has 16 characters or more, all four classes, is not common, has no simple
\* pattern, no run of three identical characters, and is not a word of four
\* or more letters.
AffirmationIffExcellent ==
    (op = "get_enhancement_suggestions") =>
        ( result.value = <<MsgExcellent>>
          <=> /\ analyzer.length >= 16
              /\ char_type_count(analyzer.char_sets) = 4
              /\ ~is_common(analyzer)
              /\ ~_has_simple_patterns(analyzer)
              /\ ~HasRun(analyzer.password)
              /\ ~(analyzer.length >= 4 /\ isalpha(analyzer.password)) )

\* the messages that can fire before the best-practice tips, in their order
FixedOrder(n) ==
    <<MsgLength12(n), MsgLength16(n), MsgUppercase, MsgLowercase, MsgDigits,
      MsgSpecial, MsgCommon, MsgPatterns, MsgRepeated, MsgDictionary>>

Position(m, order) == CHOOSE k \in DOMAIN order : order[k] = m

\* the list is the affirmation alone, or messages of the fixed order in that
\* order, with the length advice of the tier of n, followed by the three tips
WellOrdered(suggestions, n) ==
    \/ suggestions = <<MsgExcellent>>
    \/ /\ Len(suggestions) >= 4
       /\ SubSeq(suggestions, Len(suggestions) - 2, Len(suggestions))
              = <<MsgPassphrase, MsgManager, MsgReuse>>
       /\ LET fired == SubSeq(suggestions, 1, Len(suggestions) - 3)
              order == FixedOrder(n)
          IN  /\ \A i \in DOMAIN fired : fired[i] \in Range(order)
              /\ \A i, j \in DOMAIN fired :
                    i < j => Position(fired[i], order) < Position(fired[j], order)
              /\ (MsgLength12(n) \in Range(fired)) <=> (n < 12)
              /\ (MsgLength16(n) \in Range(fired)) <=> (12 <= n /\ n < 16)

\* C7: the messages that fire come in the fixed order (one length advice at
\* most, the missing classes, common, pattern, repeated, dictionary word) and
\* the three best-practice tips are the last three entries.
SuggestionsInFixedOrder ==
    /\ (op = "get_enhancement_suggestions") =>
            WellOrdered(result.value, analyzer.length)
    /\ (op = "analyze_password" /\ response.status = 200) =>
            WellOrdered(response.data.suggestions, analyzer.length)

\* a list with a length advice, missing classes, the common-password warning
\* and the pattern warning has been returned
SuggestionsInFixedOrderWitness ==
    /\ op = "get_enhancement_suggestions"
    /\ {MsgLength12(analyzer.length), MsgUppercase, MsgSpecial, MsgCommon, MsgPatterns}
           \subseteq Range(result.value)

\* C8: the strength score is a whole number, for the analyzer and in the
\* response of the endpoint.
ScoreIsInteger ==
    /\ Built => analyzer.strength_score % 2 = 0
    /\ (op = "analyze_password" /\ response.status = 200) =>
            response.data.strength.score % 2 = 0

SpotChecks ==
    Built =>
        /\ (analyzer.password = examples[1].password =>
                analyzer.strength_score <= Pts(5))
        /\ (analyzer.password = Passphrase =>
                analyzer.strength_score = Pts(100))

-----------------------------------------------------------------------------
(* The level mapper on its own: _determine_strength_level reads nothing    *)
(* but self.strength_score, so it is applied to every score from 0 to 100, *)
(* in half points, whether a password reaches that score or not.           *)

ScoreInputs == 0..Pts(100)

MapperInit ==
    /\ ARGON2_AVAILABLE \in BOOLEAN
    /\ analyzer = NoAnalyzer
    /\ op = "idle"
    /\ arg \in ScoreInputs
    /\ result = NoValue
    /\ response = NoResponse
    /\ calls = <<>>

\* _determine_strength_level on an analyzer whose strength_score is arg
DetermineStrengthLevel ==
    /\ op = "idle"
    /\ result' = Return(_determine_strength_level([strength_score |-> arg]))
    /\ op' = "_determine_strength_level"
    /\ UNCHANGED <<ARGON2_AVAILABLE, analyzer, arg, response, calls>>

MapperNext == DetermineStrengthLevel

MapperSpec == MapperInit /\ [][MapperNext]_vars

\* the half-open interval of scores of each label
LevelInterval ==
    [l \in {"Very Strong", "Strong", "Moderate", "Weak", "Very Weak"} |->
        CASE l = "Very Strong" -> [lo |-> Pts(80), hi |-> Pts(100) + 1]
          [] l = "Strong"      -> [lo |-> Pts(60), hi |-> Pts(80)]
          [] l = "Moderate"    -> [lo |-> Pts(40), hi |-> Pts(60)]
          [] l = "Weak"        -> [lo |-> Pts(20), hi |-> Pts(40)]
          [] l = "Very Weak"   -> [lo |-> 0,       hi |-> Pts(20)]]

\* the label returned is the only one whose interval holds the score
OneLabel(score, level) ==
    /\ level \in DOMAIN LevelInterval
    /\ {l \in DOMAIN LevelInterval :
            LevelInterval[l].lo <= score /\ score < LevelInterval[l].hi} = {level}

\* C11: the thresholds of the level mapper do not overlap, and the score 79
\* maps to "Moderate" and the score 80 to "Very Strong".
Score79IsModerate ==
    (op = "_determine_strength_level") =>
        /\ OneLabel(arg, result.value)
        /\ (arg = Pts(79) => result.value = "Moderate")
        /\ (arg = Pts(80) => result.value = "Very Strong")

\* C11, amended: the thresholds of the level mapper do not overlap, and the
\* score 79 maps to "Strong" and the score 80 to "Very Strong".
Score79IsStrong ==
    (op = "_determine_strength_level") =>
        /\ OneLabel(arg, result.value)
        /\ (arg = Pts(79) => result.value = "Strong")
        /\ (arg = Pts(80) => result.value = "Very Strong")

\* the score 79 has been mapped
Score79Witness ==
    /\ op = "_determine_strength_level"
    /\ arg = Pts(79)
    /\ result.value = "Strong"

-----------------------------------------------------------------------------
(* Hashing failures *)

\* the field of the hashes mapping is an error string put in place of a hash
InlineError(field) == field.kind = "[Argon2 error: ...]"

\* the rest of an answered analysis: strength, crack times and suggestions
AnalysisReturned ==
    /\ response.status = 200
    /\ response.success
    /\ response.data.strength.score = analyzer.strength_score
    /\ Len(response.data.crack_times) = 5
    /\ Len(response.data.suggestions) >= 1
    /\ DOMAIN response.data.hashes = Range(Algorithms)

\* C12: when bcrypt or argon2 raises during the analysis of a non-empty
\* password, the field of that algorithm holds an error string, the other
\* hashes, the strength, the crack times and the suggestions are returned,
\* and the response is not an error response.
HashFailureIsInline ==
    /\ (op = "analyze_password" /\ "PasswordHasher.hash raised" \in Range(calls)) =>
            /\ AnalysisReturned
            /\ InlineError(response.data.hashes["argon2"])
            /\ \A k \in Range(Algorithms) \ {"argon2"} :
                  ~InlineError(response.data.hashes[k])
    /\ (op = "analyze_password" /\ "bcrypt.hashpw raised" \in Range(calls)) =>
            /\ AnalysisReturned
            /\ response.data.hashes["bcrypt"].kind # "bcrypt hash"
            /\ \A k \in Range(Algorithms) \ {"bcrypt"} :
                  ~InlineError(response.data.hashes[k])

-----------------------------------------------------------------------------
(* Combinations and crack times *)

\* the sum of 26, 26, 10 and 32 over the classes that have a character in
\* the password, or 26 when no class has one
CharsetOf(password) ==
    LET Present(class) == \E i \in DOMAIN password : password[i] \in class
        sum == (IF Present(LowerSet) THEN 26 ELSE 0)
             + (IF Present(UpperSet) THEN 26 ELSE 0)
             + (IF Present(DigitSet) THEN 10 ELSE 0)
             + (IF Present(SpecialSet) THEN 32 ELSE 0)
    IN  IF sum = 0 THEN 26 ELSE sum

\* the estimate is the one the claim describes for the password and the
\* algorithm: combinations, time in seconds (as log2) and, for a common
\* password, the time "Instant"
EstimateAsClaimed(estimate, password, algorithm) ==
    LET common == lower(password) \in COMMON_PASSWORDS
    IN  /\ estimate.algorithm = algorithm
        /\ common => /\ estimate.combinations = [base |-> 1, exp |-> 0]
                     /\ estimate.time_human = "Instant"
        /\ ~common =>
              estimate.combinations =
                  (IF Len(password) = 0
                   THEN [base |-> 1, exp |-> 0]
                   ELSE [base |-> CharsetOf(password), exp |-> Len(password)])
        /\ estimate.time_seconds =
              estimate.combinations.exp * Log2Micro(estimate.combinations.base)
                  - Bits(1) - ATTACK_SPEEDS[algorithm]

-----------------------------------------------------------------------------
(* The order of the score's steps *)

LengthPoints(self) ==
    IF self.length >= 16 THEN Pts(35)
    ELSE IF self.length >= 12 THEN Pts(25)
    ELSE IF self.length >= 8 THEN Pts(15)
    ELSE IF self.length >= 6 THEN Pts(5)
    ELSE 0

EntropyPoints(self) ==
    IF self.entropy >= Bits(80) THEN Pts(20)
    ELSE IF self.entropy >= Bits(60) THEN Pts(15)
    ELSE IF self.entropy >= Bits(40) THEN Pts(10)
    ELSE IF self.entropy >= Bits(28) THEN Pts(5)
    ELSE 0

Subtotal(self) ==
    LengthPoints(self) + char_type_count(self.char_sets) * 15 + EntropyPoints(self)

\* the bonuses of step 6, the second one for a password without a run of
\* three or more identical characters
Bonuses(self) ==
      (IF self.length >= 12 /\ char_type_count(self.char_sets) >= 3
       THEN Pts(10) ELSE 0)
    + (IF ~HasRun(self.password) THEN Pts(5) ELSE 0)

\* the subtotal after the two penalties, each with its own floor at 0
Penalised(self) ==
    LET afterCommon == IF is_common(self)
                       THEN Max(0, Subtotal(self) - Pts(50))
                       ELSE Subtotal(self)
    IN  IF _has_simple_patterns(self) THEN Max(0, afterCommon - Pts(20))
        ELSE afterCommon

\* C14: the score is the subtotal, minus 50 floored at 0 for a common
\* password, minus 20 floored at 0 for a simple pattern, plus the bonuses (10
\* for length >= 12 with three classes, 5 for no run of three identical
\* characters), clamped to [0,100]; so a password without such a run scores
\* at least 5 and a common password with a subtotal of at most 50 scores the
\* sum of its bonuses.
ScoreBuiltInOrder ==
    Built =>
        /\ analyzer.strength_score
              = Min(Pts(100), Max(0, Penalised(analyzer) + Bonuses(analyzer)))
        /\ ~HasRun(analyzer.password) => analyzer.strength_score >= Pts(5)
        /\ (is_common(analyzer) /\ Subtotal(analyzer) <= Pts(50)) =>
              analyzer.strength_score = Bonuses(analyzer)

====
